---- MODULE Spec2Model ----
\* Consumables dashboard (src/app1.py): the data loading and normalisation of
\* load_data, the page filter, and the Overview / department analytics that one
\* run of the script computes on the loaded table.
EXTENDS Integers, Sequences, FiniteSets, TLC

VARIABLES
    pc,           \* position of the script / of load_data
    df_old,       \* load_data: the historical frame
    files,        \* load_data: the listing of data/monthly
    df_new_list,  \* load_data: the monthly frames read so far
    errors,       \* st.error messages reported so far (by source)
    df,           \* the table load_data returned
    page,         \* the selected view
    df_page,      \* the page's table
    view,         \* what the run computed for the page
    steps,        \* the aggregation steps the run has executed, in order
    raw,          \* clean_num: the cell given
    num,          \* clean_num: the value returned
    i,            \* load_data: position of the loop over files
    prov,         \* history: for each record of df, the source row it came from
    emp_feats,    \* per-employee features of the latest month, with Cluster
    centroids,    \* kmeans.cluster_centers_, rows 0..2 as <<Total_Spend, Txn_Count>>
    label_map     \* cluster id -> friendly label

vars == <<pc, df_old, files, df_new_list, errors, df, page, df_page, view, steps,
          raw, num, i, prov, emp_feats, centroids, label_map>>

\* ---------------------------------------------------------------- bounds

MaxNumLen == 3
MaxRows == 2     \* rows read from all sources together
MaxFiles == 2    \* entries of the data/monthly listing
MaxTable == 3    \* rows of a cached table a run starts from
MaxSpend == 3    \* largest total spend of an employee given to the clustering alone
MaxTxn == 3      \* largest transaction count of an employee given to it

\* ---------------------------------------------------------------- values

\* A float column's value: a number or the missing marker NaN.
NaN == [nan |-> TRUE, v |-> 0]
Num(n) == [nan |-> FALSE, v |-> n]

\* A raw cell is its text, one character per element; a cell the source left
\* empty is the float NaN, written MissingCell.
MissingCell == <<"NaN">>
\* a date cell the source left empty
MissingDate == << MissingCell >>

Digits == {"0", "1", "2", "3", "4", "5", "6", "7", "8", "9"}

DigitVal(c) ==
    CASE c = "0" -> 0 [] c = "1" -> 1 [] c = "2" -> 2 [] c = "3" -> 3
      [] c = "4" -> 4 [] c = "5" -> 5 [] c = "6" -> 6 [] c = "7" -> 7
      [] c = "8" -> 8 [] c = "9" -> 9

RECURSIVE DecimalValue(_)
DecimalValue(s) ==
    IF s = <<>> THEN 0
    ELSE 10 * DecimalValue(SubSeq(s, 1, Len(s) - 1)) + DigitVal(s[Len(s)])

AllDigits(s) == s # <<>> /\ \A k \in 1..Len(s) : s[k] \in Digits

\* Series.astype(str): NaN becomes the text "nan".
AsStr(cell) == IF cell = MissingCell THEN <<"n", "a", "n">> ELSE cell

\* .str.replace(r"[\$,()]", "", regex=True)
StripChars == {"$", ",", "(", ")"}
RemoveChars(s) == SelectSeq(s, LAMBDA c : c \notin StripChars)

\* pd.to_numeric(errors="coerce") on text: an optional sign and digits parse,
\* anything else (the empty text and "nan" included) is NaN.
ToNumeric(s) ==
    LET signed == s # <<>> /\ s[1] = "-"
        body == IF signed THEN Tail(s) ELSE s
    IN IF AllDigits(body)
       THEN Num(IF signed THEN 0 - DecimalValue(body) ELSE DecimalValue(body))
       ELSE NaN

clean_num(cell) == ToNumeric(RemoveChars(AsStr(cell)))

RECURSIVE StringsUpTo(_, _)
StringsUpTo(A, n) ==
    IF n <= 0 THEN {<<>>}
    ELSE LET shorter == StringsUpTo(A, n - 1)
         IN shorter \cup {Append(s, c) : s \in {t \in shorter : Len(t) = n - 1}, c \in A}

\* ------------------------------------------------------- text and dates

\* A department label is its text as a sequence of tokens: runs of
\* non-blank characters and single blanks " ".
RECURSIVE LStrip(_)
LStrip(s) == IF s # <<>> /\ s[1] = " " THEN LStrip(Tail(s)) ELSE s
RECURSIVE RStrip(_)
RStrip(s) ==
    IF s # <<>> /\ s[Len(s)] = " " THEN RStrip(SubSeq(s, 1, Len(s) - 1)) ELSE s
\* Series.str.strip()
Strip(s) == RStrip(LStrip(s))

\* Series.astype(str) on a label column: NaN becomes the text "nan".
AsStrLabel(v) == IF v = MissingCell THEN <<"nan">> ELSE v

\* Series.replace(dept_map): whole-value replacement, other values unchanged.
dept_map(s) ==
    CASE s = <<"BTC">> -> <<"BT">>
      [] s = <<"WTC">> -> <<"WT">>
      [] s = <<"IM">> -> <<"IM">>
      [] s = <<"QC", " ", "AND", " ", "NDT">> -> <<"QC">>
      [] s = <<"MAINT">> -> <<"MT">>
      [] s = <<"WH">> -> <<"SCM">>
      [] s = <<"LOGI">> -> <<"SCM">>
      [] OTHER -> s

dept_map_keys ==
    { <<"BTC">>, <<"WTC">>, <<"IM">>, <<"QC", " ", "AND", " ", "NDT">>,
      <<"MAINT">>, <<"WH">>, <<"LOGI">> }

exclude_depts ==
    { <<"KONE,CRANE", " ", "PUEBLO">>, <<"Portugal,Employee">>,
      <<"Pueblo,HSE">>, <<"Pueblo,Kitting">> }

pages == << <<"Overview">>, <<"BT">>, <<"WT">>, <<"IM">>, <<"QC">>, <<"MT">>, <<"SCM">> >>

\* A Timestamp (year, month, day) or NaT.
NaT == [nat |-> TRUE, y |-> 0, m |-> 0, d |-> 0]
Timestamp(y, m, d) == [nat |-> FALSE, y |-> y, m |-> m, d |-> d]

DaysInMonth(y, m) ==
    IF m = 2 THEN (IF y % 4 = 0 /\ (y % 100 # 0 \/ y % 400 = 0) THEN 29 ELSE 28)
    ELSE IF m \in {4, 6, 9, 11} THEN 30 ELSE 31

\* pd.to_datetime(errors="coerce") on a date cell written as its year, month
\* and day fields: anything that is no calendar date is NaT.
to_datetime(cell) ==
    IF /\ cell # MissingDate
       /\ Len(cell) = 3
       /\ \A k \in 1..3 : AllDigits(cell[k])
       /\ DecimalValue(cell[2]) \in 1..12
       /\ DecimalValue(cell[3]) \in 1..DaysInMonth(DecimalValue(cell[1]), DecimalValue(cell[2]))
    THEN Timestamp(DecimalValue(cell[1]), DecimalValue(cell[2]), DecimalValue(cell[3]))
    ELSE NaT

\* ------------------------------------------------------------ the sources

Dec15 == << <<"2", "0", "2", "4">>, <<"1", "2">>, <<"1", "5">> >>
Feb03 == << <<"2", "0", "2", "5">>, <<"0", "2">>, <<"0", "3">> >>
BadDate == << <<"T", "B", "D">> >>

RawRow(date, item, qty, ext, emp, label) ==
    [Date |-> date, Item |-> item, Quantity |-> qty, Extension |-> ext,
     Emp |-> emp, Label |-> label]

\* The rows a source may hold: every combination of a parseable or
\* unparseable date and quantity, and every kind of department label.
RowPool ==
    { RawRow(Feb03, 1, <<"2">>, <<"$", "1", ",", "2", "0", "0">>, "E1", <<" ", "WH", " ">>),
      RawRow(Dec15, 1, <<"1">>, <<"4", "0">>, "E2", <<" ", "Pueblo,HSE">>),
      RawRow(Feb03, 2, <<"(", "3", ")">>, MissingCell, "E2", <<"LAB">>),
      RawRow(Dec15, 2, <<"4">>, <<"2", "5">>, "E3", MissingCell),
      RawRow(BadDate, 1, <<"5">>, <<"1", "0">>, "E1", <<"BTC">>),
      RawRow(Feb03, 1, <<"x">>, <<"7">>, "E3", <<"BTC">>),
      RawRow(MissingDate, 2, MissingCell, <<"7">>, "E1", <<"WTC">>) }

\* The names under which a source may carry its department column; the
\* historical sheet may also have none.
DeptAliases == {"department", "Department"}
HistoricalColumns == DeptAliases \cup {"none"}

\* A row of a frame once read: its date parsed. A source without a department
\* column has no labels. origin records the source, the row's number in it and
\* the label it arrived with.
ReadRow(r, src, n, alias) ==
    [Date |-> to_datetime(r.Date), Item |-> r.Item, Quantity |-> r.Quantity,
     Extension |-> r.Extension, Emp |-> r.Emp,
     Label |-> IF alias = "none" THEN MissingCell ELSE r.Label,
     origin |-> [src |-> src, n |-> n, hascol |-> alias # "none",
                 label |-> IF alias = "none" THEN MissingCell ELSE r.Label]]

ReadRows(rows, src, alias) ==
    [k \in 1..Len(rows) |-> ReadRow(rows[k], src, k, alias)]

\* for col in ("department","Department"): rename the first one found to Dept
RenameHistorical(alias) ==
    IF alias \in {"department", "Department"} THEN "Dept" ELSE alias

\* if "Department" in df.columns: rename it to Dept
RenameMonthly(alias) == IF alias = "Department" THEN "Dept" ELSE alias

\* The contents a source may hold, by the number of rows it may still bring.
RowSeqs == [n \in 0..MaxRows |-> StringsUpTo(RowPool, n)]

RECURSIVE RowCount(_)
RowCount(frames) ==
    IF frames = <<>> THEN 0 ELSE Len(frames[1].rows) + RowCount(Tail(frames))

RowsLeft == MaxRows - (IF df_old = <<>> THEN 0 ELSE Len(df_old.rows)) - RowCount(df_new_list)

\* ----------------------------------------------------------- load_data

Init ==
    /\ pc = "start"
    /\ df_old = <<>> /\ files = <<>> /\ df_new_list = <<>> /\ errors = {}
    /\ df = <<>> /\ page = <<>> /\ df_page = <<>> /\ view = <<>> /\ steps = <<>>
    /\ i = 0 /\ prov = <<>>
    /\ raw = <<>> /\ num = NaN
    /\ emp_feats = <<>> /\ centroids = <<>> /\ label_map = <<>>

\* load_data returns table: its locals are gone, the script holds df
Return(table, origins) ==
    /\ df' = table
    /\ prov' = origins
    /\ df_old' = <<>> /\ files' = <<>> /\ df_new_list' = <<>> /\ i' = 0
    /\ pc' = "loaded"

\* st.error(...); return pd.DataFrame()
ReturnEmpty(msg) ==
    /\ errors' = errors \cup {msg}
    /\ Return(<<>>, <<>>)

\* 1) the historical Excel
ReadExcel ==
    /\ pc = "start"
    /\ \E ok \in BOOLEAN, alias \in HistoricalColumns, rows \in RowSeqs[MaxRows] :
        IF ~ok
        THEN /\ rows = <<>> /\ alias = "none"
             /\ ReturnEmpty(<<"excel">>)
        ELSE /\ df_old' = [col |-> RenameHistorical(alias),
                           rows |-> ReadRows(rows, <<"excel">>, alias)]
             /\ pc' = "list"
             /\ UNCHANGED <<errors, df, prov, files, df_new_list, i>>
    /\ UNCHANGED <<page, df_page, view, steps, raw, num, emp_feats, centroids,
                   label_map>>

\* f.get("type") == "file" and f.get("name","").lower().endswith(".csv")
IsCsvFile(f) == f = "csv"

\* 2) the listing of data/monthly; the loop body runs for its CSV files only
ListFiles ==
    /\ pc = "list"
    /\ \E ok \in BOOLEAN, listing \in StringsUpTo({"csv", "other"}, MaxFiles) :
        IF ~ok
        THEN /\ listing = <<>>
             /\ ReturnEmpty(<<"api">>)
        ELSE /\ files' = SelectSeq(listing, IsCsvFile)
             /\ i' = 1
             /\ pc' = "loop"
             /\ UNCHANGED <<errors, df, prov, df_old, df_new_list>>
    /\ UNCHANGED <<page, df_page, view, steps, raw, num, emp_feats, centroids,
                   label_map>>

\* 3) one iteration of the loop over the listing's CSV files
ReadCsv ==
    /\ pc = "loop"
    /\ i <= Len(files)
    /\ i' = i + 1
    /\ \E ok \in BOOLEAN, alias \in DeptAliases, rows \in RowSeqs[RowsLeft] :
        IF ~ok
        THEN /\ rows = <<>> /\ alias = "Department"
             /\ errors' = errors \cup {<<"csv", i>>}
             /\ UNCHANGED df_new_list
        ELSE /\ df_new_list' =
                  Append(df_new_list,
                         [col |-> RenameMonthly(alias),
                          rows |-> ReadRows(rows, <<"csv", i>>, alias)])
             /\ UNCHANGED errors
    /\ UNCHANGED <<pc, df_old, files, df, page, df_page, view, steps, raw, num,
                   prov, emp_feats, centroids, label_map>>

\* 4) keep: a department column survives only under the name Dept
HasDept(frame) == frame.col = "Dept"

\* pd.concat of the monthly frames: a row of a frame without the column gets NaN
ConcatLabel(frame, r) == IF HasDept(frame) THEN r.Label ELSE MissingCell

RECURSIVE ConcatRows(_)
ConcatRows(frames) ==
    IF frames = <<>> THEN <<>>
    ELSE [k \in 1..Len(frames[1].rows) |->
             [frames[1].rows[k] EXCEPT !.Label = ConcatLabel(frames[1], frames[1].rows[k])]]
         \o ConcatRows(Tail(frames))

\* A plausible slip: only the last monthly frame kept.
ConcatLast(frames) ==
    [col |-> IF HasDept(frames[Len(frames)]) THEN "Dept" ELSE "none",
     rows |-> ConcatRows(<<frames[Len(frames)]>>)]

Concat(frames) ==
    [col |-> IF \E k \in 1..Len(frames) : HasDept(frames[k]) THEN "Dept" ELSE "none",
     rows |-> ConcatRows(frames)]

\* 6) frame["Dept"].astype(str).str.strip().replace(dept_map)
StandardDept(label) == dept_map(Strip(AsStrLabel(label)))

\* 5) and 6) on one frame; a frame without Dept has NaN there after the merge
Normalised(frame) ==
    [k \in 1..Len(frame.rows) |->
        LET r == frame.rows[k]
        IN [Date |-> r.Date, Item |-> r.Item,
            Quantity |-> clean_num(r.Quantity),
            Extension |-> clean_num(r.Extension),
            Emp |-> r.Emp,
            Dept |-> IF HasDept(frame) THEN StandardDept(r.Label) ELSE MissingCell,
            origin |-> r.origin]]

\* df[~df["Dept"].isin(exclude_depts)]
NotExcluded(r) == r.Dept \notin exclude_depts

\* A plausible slip: only the date is required.
HasDateOnly(r) == ~r.Date.nat

\* dropna(subset=["Date", "Quantity"])
HasDateAndQuantity(r) == ~r.Date.nat /\ ~r.Quantity.nan

Retained(r) == NotExcluded(r) /\ HasDateAndQuantity(r)

Record(r) ==
    [Date |-> r.Date, Item |-> r.Item, Quantity |-> r.Quantity,
     Extension |-> r.Extension, Emp |-> r.Emp, Dept |-> r.Dept]

\* After the loop: 4) to 7), to the return of load_data. With no department
\* column in any frame, df["Dept"] raises KeyError.
Merge ==
    /\ pc = "loop"
    /\ i > Len(files)
    /\ IF df_new_list = <<>>
       THEN ReturnEmpty(<<"nocsv">>)
       ELSE LET df_new == Concat(df_new_list)
                merged == SelectSeq(Normalised(df_old) \o Normalised(df_new), Retained)
            IN IF ~HasDept(df_old) /\ ~HasDept(df_new)
               THEN /\ pc' = "KeyError"
                    /\ UNCHANGED <<errors, df, prov, df_old, files, df_new_list, i>>
               ELSE /\ Return([k \in 1..Len(merged) |-> Record(merged[k])],
                              [k \in 1..Len(merged) |-> merged[k].origin])
                    /\ UNCHANGED errors
    /\ UNCHANGED <<page, df_page, view, steps, raw, num, emp_feats, centroids,
                   label_map>>

\* ------------------------------------------------- the run of the script

\* if df.empty: st.stop()
StopIfEmpty ==
    /\ pc = "loaded"
    /\ df = <<>>
    /\ pc' = "stopped"
    /\ UNCHANGED <<df_old, files, df_new_list, errors, df, page, df_page, view,
                   steps, raw, num, i, prov, emp_feats, centroids, label_map>>

\* Series.fillna(0).sum()
RECURSIVE SumFillZero(_)
SumFillZero(values) ==
    IF values = <<>> THEN 0
    ELSE (IF values[1].nan THEN 0 ELSE values[1].v) + SumFillZero(Tail(values))

Rows(table) == {table[k] : k \in 1..Len(table)}

Column(table, name) == [k \in 1..Len(table) |-> table[k][name]]

\* A plausible slip: the page filter not applied.
PageFilterAll(p, r) == TRUE

\* df if page == "Overview" else df[df["Dept"] == page]
PageFilter(p, r) == p = <<"Overview">> \/ r.Dept = p

\* The page selection, the page's table and the common KPIs.
SelectPage ==
    /\ pc = "loaded"
    /\ df # <<>>
    /\ \E k \in 1..Len(pages) :
        /\ page' = pages[k]
        /\ df_page' = SelectSeq(df, LAMBDA r : PageFilter(pages[k], r))
    /\ view' = [total_qty |-> SumFillZero(Column(df_page', "Quantity")),
                total_val |-> SumFillZero(Column(df_page', "Extension")),
                total_records |-> Len(df_page'),
                caption |-> \E k \in 1..Len(df_page') : df_page'[k].Extension.nan]
    /\ pc' = "page"
    /\ UNCHANGED <<df_old, files, df_new_list, errors, df, steps, raw, num, i,
                   prov, emp_feats, centroids, label_map>>


\* ------------------------------------------------------------ aggregation

\* Series.dt.to_period("M"), as a month count
Period(ts) == ts.y * 12 + ts.m

AllMissing(values) == \A k \in 1..Len(values) : values[k].nan

\* GroupBy.sum(min_count=1): NaN for a group without a value
SumMinCount(values) ==
    IF AllMissing(values) THEN NaN ELSE Num(SumFillZero(values))

\* GroupBy.sum(): missing values skipped, 0 for a group without a value
Sum(values) == Num(SumFillZero(values))

\* GroupBy "count": the values that are not missing
Count(values) == Len(SelectSeq(values, LAMBDA x : ~x.nan))

\* The aggregations of a group's values
Agg(how, values) ==
    CASE how = "sum" -> Sum(values)
      [] how = "sum(min_count=1)" -> SumMinCount(values)
      [] how = "count" -> Count(values)

\* The group a record belongs to: by month, item, department, employee, or
\* employee and item
Key(by, r) ==
    CASE by = "Date" -> Period(r.Date)
      [] by = "Item" -> r.Item
      [] by = "Dept" -> r.Dept
      [] by = "Employee.1" -> r.Emp
      [] by = "Employee.1,Item" -> <<r.Emp, r.Item>>

\* table.groupby(by)[column].agg(how): one entry per key
GroupBy(table, by, column, how) ==
    [g \in {Key(by, r) : r \in Rows(table)} |->
        Agg(how, Column(SelectSeq(table, LAMBDA r : Key(by, r) = g), column))]

\* Series.nlargest(10): the 10 largest values, missing ones left out, the
\* first of equal values kept; given as the entries that are kept
TopN == 10
NLargest(series) ==
    LET keys == {g \in DOMAIN series : ~series[g].nan}
        ahead(g) == {h \in keys : \/ series[h].v > series[g].v
                                  \/ (series[h].v = series[g].v /\ h < g)}
        kept == {g \in keys : Cardinality(ahead(g)) < TopN}
    IN [g \in kept |-> series[g]]

Years(table) == {r.Date.y : r \in Rows(table)}
Max(S) == CHOOSE x \in S : \A y \in S : y <= x
InYear(table, year) == SelectSeq(table, LAMBDA r : r.Date.y = year)
InPeriod(table, period) == SelectSeq(table, LAMBDA r : Period(r.Date) = period)

\* dp["Dept"].fillna("Unassigned")
FillUnassigned(series) ==
    [g \in {IF h = MissingCell THEN <<"Unassigned">> ELSE h : h \in DOMAIN series} |->
        IF g = <<"Unassigned">> /\ MissingCell \in DOMAIN series
        THEN series[MissingCell] ELSE series[g]]

\* The Overview page: its aggregates and tabs; sel_year is the user's choice
\* in the By Year tab.
Overview ==
    /\ pc = "page"
    /\ page = <<"Overview">>
    /\ \E sel_year \in Years(df) :
        LET default_year == Max(Years(df))
            df_year == InYear(df, default_year)
            last_period == Max({Period(r.Date) : r \in Rows(df_year)})
            df_last == InPeriod(df_year, last_period)
        IN view' = [kpi |-> view,
                    mono |-> GroupBy(df, "Date", "Extension", "sum(min_count=1)"),
                    monthly |-> GroupBy(InYear(df, sel_year), "Date", "Extension", "sum"),
                    sel_year |-> sel_year,
                    last_period |-> last_period,
                    top_q |-> NLargest(GroupBy(df, "Item", "Quantity", "sum(min_count=1)")),
                    top_e |-> NLargest(GroupBy(df, "Item", "Extension", "sum(min_count=1)")),
                    dp |-> FillUnassigned(GroupBy(df_last, "Dept", "Extension", "sum(min_count=1)")),
                    dept_overall |->
                        GroupBy(SelectSeq(df, LAMBDA r : r.Dept # MissingCell),
                                "Dept", "Extension", "sum")]
    /\ steps' = steps \o <<"monthly", "latest-month", "top10", "dept-share">>
    /\ pc' = "rendered"
    /\ UNCHANGED <<df_old, files, df_new_list, errors, df, page, df_page, raw, num,
                   i, prov, emp_feats, centroids, label_map>>

\* A department page, 1) to 3): trend, all-time and latest-month top items.
\* On a page without records last_period is NaT, and NaT has no to_timestamp:
\* the run ends in an exception at line 351.
DeptAggregates ==
    /\ pc = "page"
    /\ page # <<"Overview">>
    /\ LET dept_trend == GroupBy(df_page, "Date", "Extension", "sum")
           top_q == NLargest(GroupBy(df_page, "Item", "Quantity", "sum"))
           top_e == NLargest(GroupBy(df_page, "Item", "Extension", "sum"))
       IN IF df_page = <<>>
          THEN /\ view' = [kpi |-> view, dept_trend |-> dept_trend,
                           top_q |-> top_q, top_e |-> top_e,
                           raised |-> "NaT.to_timestamp"]
               /\ steps' = steps \o <<"trend", "top10", "latest-month">>
               /\ pc' = "exception"
          ELSE LET last_period == Max({Period(r.Date) : r \in Rows(df_page)})
                   df_last == InPeriod(df_page, last_period)
               IN /\ view' = [kpi |-> view, dept_trend |-> dept_trend,
                              top_q |-> top_q, top_e |-> top_e,
                              last_period |-> last_period,
                              top_q_last |->
                                  NLargest(GroupBy(df_last, "Item", "Quantity", "sum")),
                              top_e_last |->
                                  NLargest(GroupBy(df_last, "Item", "Extension", "sum"))]
                  /\ steps' = steps \o <<"trend", "top10", "latest-month", "top10-latest">>
                  /\ pc' = "dept"
    /\ UNCHANGED <<df_old, files, df_new_list, errors, df, page, df_page, raw, num,
                   i, prov, emp_feats, centroids, label_map>>

\* A record with one more field
With(rec, field, val) ==
    [f \in DOMAIN rec \cup {field} |-> IF f = field THEN val ELSE rec[f]]

\* df_page[df_page["Date"].dt.to_period("M") == last_period]
df_em == InPeriod(df_page, view.last_period)

\* emp_spend[emp_spend["Total_Spend"] > 0], by employee
PositiveSpend(series) == {e \in DOMAIN series : series[e].v > 0}

\* IsolationForest(contamination=0.05).fit_predict: a sample is flagged when
\* its score lies under the 5th percentile of the scores. With one sample
\* that percentile is its own score and nothing is flagged; with up to 20
\* samples only a single lowest score can lie under it. Which sample scores
\* lowest is the forest's: any one of them, or none on a tie.
IsolationForest(samples) ==
    IF Cardinality(samples) < 2 THEN {{}}
    ELSE {{}} \cup {{e} : e \in samples}

\* 5) the latest month's spend per employee and the outlier model
AnomalyDetection ==
    /\ pc = "dept"
    /\ LET emp_spend == PositiveSpend(GroupBy(df_em, "Employee.1", "Extension", "sum"))
       IN IF emp_spend # {}
          THEN \E anomalies \in IsolationForest(emp_spend) :
                  view' = With(With(With(view, "emp_spend", emp_spend),
                                    "iso", TRUE), "anomalies", anomalies)
          ELSE view' = With(With(With(view, "emp_spend", emp_spend),
                                 "iso", FALSE), "anomalies", {})
    /\ steps' = Append(steps, "anomaly")
    /\ pc' = "anomalies"
    /\ UNCHANGED <<df_old, files, df_new_list, errors, df, page, df_page, raw, num,
                   i, prov, emp_feats, centroids, label_map>>

\* The employees' features for clustering: total spend and the count of
\* costed transactions in the latest month, where both are positive.
Features(table) ==
    LET spend == GroupBy(table, "Employee.1", "Extension", "sum")
        count == GroupBy(table, "Employee.1", "Extension", "count")
        active == {e \in DOMAIN spend : spend[e].v > 0 /\ count[e] > 0}
    IN [e \in active |-> [Total_Spend |-> spend[e].v, Txn_Count |-> count[e]]]

ClusterFeatures ==
    /\ pc = "anomalies"
    /\ emp_feats' = Features(df_em)
    /\ steps' = Append(steps, "features")
    /\ pc' = "features"
    /\ UNCHANGED <<df_old, files, df_new_list, errors, df, page, df_page, view,
                   raw, num, i, prov, centroids, label_map>>

\* ------------------------------------------------------------- clustering

\* Centroid coordinates are means: fractions n/d, compared by cross-multiplying
Exactly(x) == [n |-> x, d |-> 1]
RatLess(a, b) == a.n * b.d < b.n * a.d
RatEq(a, b) == a.n * b.d = b.n * a.d

RECURSIVE SumOver(_, _)
SumOver(f, S) ==
    IF S = {} THEN 0
    ELSE LET e == CHOOSE x \in S : TRUE IN f[e] + SumOver(f, S \ {e})

Mean(feats, members) ==
    [Total_Spend |-> [n |-> SumOver([e \in members |-> feats[e].Total_Spend], members),
                      d |-> Cardinality(members)],
     Txn_Count |-> [n |-> SumOver([e \in members |-> feats[e].Txn_Count], members),
                    d |-> Cardinality(members)]]

SameCentre(a, b) ==
    RatEq(a.Total_Spend, b.Total_Spend) /\ RatEq(a.Txn_Count, b.Txn_Count)

n_clusters == 3
Clusters == 0..(n_clusters - 1)

\* kmeans.labels_.astype(str), df.index.astype(str)
ClusterName(c) == <<"0", "1", "2">>[c + 1]

\* KMeans(n_clusters=3).fit on at least 3 samples: the partitions and centres
\* it may end with. Equal samples share a cluster; as many clusters are
\* populated as there are distinct samples, up to 3; a populated cluster's
\* centre is the mean of its samples, an unpopulated one's lies on a sample;
\* a sample lying on several centres belongs to the first of them.
KMeansFits(feats) ==
    LET emps == DOMAIN feats
        points == {feats[e] : e \in emps}
        populated == IF Cardinality(points) < n_clusters
                     THEN Cardinality(points) ELSE n_clusters
        members(a, c) == {e \in emps : a[e] = c}
        partitions ==
            {a \in [emps -> Clusters] :
                /\ \A e, f \in emps : feats[e] = feats[f] => a[e] = a[f]
                /\ Cardinality({a[e] : e \in emps}) = populated}
        OnSample(pt) == [Total_Spend |-> Exactly(pt.Total_Spend),
                         Txn_Count |-> Exactly(pt.Txn_Count)]
        fits == {[labels_ |-> a,
                  cluster_centers_ |->
                      [c \in Clusters |->
                          IF members(a, c) # {} THEN Mean(feats, members(a, c))
                          ELSE OnSample(seed[c])]] :
                 a \in partitions, seed \in [Clusters -> points]}
    IN {fit \in fits :
           \A e \in emps, c \in Clusters :
               SameCentre(fit.cluster_centers_[c], OnSample(feats[e]))
                   => fit.labels_[e] <= c}

\* kmeans = KMeans(n_clusters=3, random_state=42).fit(...): ValueError on
\* fewer samples than clusters; otherwise the employees' clusters and the
\* centroid table.
KMeansFit ==
    /\ pc = "features"
    /\ IF Cardinality(DOMAIN emp_feats) < n_clusters
       THEN /\ view' = With(view, "raised", "KMeans.fit")
            /\ pc' = "exception"
            /\ UNCHANGED <<emp_feats, centroids>>
       ELSE /\ \E fit \in KMeansFits(emp_feats) :
                /\ emp_feats' = [e \in DOMAIN emp_feats |->
                                    With(emp_feats[e], "Cluster", ClusterName(fit.labels_[e]))]
                /\ centroids' = [c \in Clusters |->
                                    With(fit.cluster_centers_[c], "Cluster", ClusterName(c))]
            /\ pc' = "fitted"
            /\ UNCHANGED view
    /\ steps' = Append(steps, "kmeans")
    /\ UNCHANGED <<df_old, files, df_new_list, errors, df, page, df_page, raw, num,
                   i, prov, label_map>>

\* The order of two centroids under sort_values(["Txn_Count","Total_Spend"]):
\* the first key descending and the second ascending, or the reverse
Before(ascending, a, b) ==
    IF ascending = <<FALSE, TRUE>>
    THEN \/ RatLess(b.Txn_Count, a.Txn_Count)
         \/ (RatEq(a.Txn_Count, b.Txn_Count) /\ RatLess(a.Total_Spend, b.Total_Spend))
    ELSE \/ RatLess(a.Txn_Count, b.Txn_Count)
         \/ (RatEq(a.Txn_Count, b.Txn_Count) /\ RatLess(b.Total_Spend, a.Total_Spend))

\* centroids.sort_values(...).iloc[0]["Cluster"]: the sort is stable, and of
\* centroids that compare equal the one of lowest index comes first
SortFirst(cs, ascending) ==
    LET c == CHOOSE c \in DOMAIN cs :
                 \A d \in DOMAIN cs \ {c} :
                     \/ Before(ascending, cs[c], cs[d])
                     \/ (~Before(ascending, cs[d], cs[c]) /\ c < d)
    IN cs[c].Cluster

\* sort_values(["Txn_Count","Total_Spend"], ascending=[False,True])
hf_ls(cs) == SortFirst(cs, <<FALSE, TRUE>>)

\* sort_values(["Txn_Count","Total_Spend"], ascending=[True,False])
lf_hs(cs) == SortFirst(cs, <<TRUE, FALSE>>)

\* The dict literal {hf_ls: ..., lf_hs: ...}, where an equal second key
\* replaces the first one's value, and "Mid-Range" for the other clusters of
\* emp_feats
LabelMap(cs, feats) ==
    [c \in {hf_ls(cs), lf_hs(cs)} \cup {feats[e].Cluster : e \in DOMAIN feats} |->
        IF c = lf_hs(cs) THEN "Low-Freq, High-Spend"
        ELSE IF c = hf_ls(cs) THEN "High-Freq, Low-Spend"
        ELSE "Mid-Range"]

\* The friendly labels of the clusters, applied to the employees
LabelClusters ==
    /\ pc = "fitted"
    /\ label_map' = LabelMap(centroids, emp_feats)
    /\ emp_feats' = [e \in DOMAIN emp_feats |->
                        With(emp_feats[e], "Cluster_Label", label_map'[emp_feats[e].Cluster])]
    /\ steps' = Append(steps, "labels")
    /\ pc' = "labelled"
    /\ UNCHANGED <<df_old, files, df_new_list, errors, df, page, df_page, view,
                   raw, num, i, prov, centroids>>

\* emp_feats[emp_feats["Cluster"] == highfreq_lowspend_cluster]["Employee.1"]
highfreq == {e \in DOMAIN emp_feats : emp_feats[e].Cluster = hf_ls(centroids)}
lowfreq == {e \in DOMAIN emp_feats : emp_feats[e].Cluster = lf_hs(centroids)}

\* high_details.query("Total_Spend > 200 and Txn_Count > 5")
filtered_high ==
    LET df_high_items == SelectSeq(df_em, LAMBDA r : r.Emp \in highfreq)
        spend == GroupBy(df_high_items, "Employee.1,Item", "Extension", "sum")
        count == GroupBy(df_high_items, "Employee.1,Item", "Extension", "count")
    IN {g \in DOMAIN spend : spend[g].v > 200 /\ count[g] > 5}

\* The five tabs of a department page
RenderTabs ==
    /\ pc = "labelled"
    /\ view' = With(With(view, "anomalies_tab",
                         IF view.anomalies # {} THEN "chart" ELSE "info"),
                    "filtered_high", filtered_high)
    /\ pc' = "rendered"
    /\ UNCHANGED <<df_old, files, df_new_list, errors, df, page, df_page, steps,
                   raw, num, i, prov, emp_feats, centroids, label_map>>

Next == ReadExcel \/ ListFiles \/ ReadCsv \/ Merge \/ StopIfEmpty \/ SelectPage

Spec == Init /\ [][Next]_vars

\* ------------------------------------------------- claims on load_data

\* C1: every record of the table load_data returned has a parsed date and a
\* non-missing quantity.
ValidDateAndQuantity ==
    \A r \in Rows(df) : ~r.Date.nat /\ ~r.Quantity.nan

\* A returned table that kept the second row of a source and not the first.
DroppedRowWitness ==
    /\ pc = "loaded"
    /\ \E k \in 1..Len(prov) :
        /\ prov[k].n = 2
        /\ ~\E j \in 1..Len(prov) : prov[j].src = prov[k].src /\ prov[j].n = 1

CanonicalCodes == {pages[k] : k \in 2..Len(pages)}

ExcludedAbsent ==
    /\ \A k \in 1..Len(df) : Strip(prov[k].label) \notin exclude_depts
    /\ Rows(df_page) \subseteq Rows(df)

\* C11: every record of the returned table whose batch, historical or
\* monthly, carried its department column under one of the alias names has
\* the standardised value of its label as department, not a missing one.
AliasRecognised ==
    \A k \in 1..Len(df) :
        prov[k].hascol =>
            /\ df[k].Dept # MissingCell
            /\ df[k].Dept = StandardDept(prov[k].label)

\* The rows of the sources read so far that pass the filters of load_data.
Usable(r) ==
    /\ ~r.Date.nat
    /\ ~clean_num(r.Quantity).nan
    /\ Strip(r.Label) \notin exclude_depts

LoadedRows ==
    (IF df_old = <<>> THEN {} ELSE Rows(df_old.rows))
    \cup UNION {Rows(df_new_list[k].rows) : k \in 1..Len(df_new_list)}

InTable(r, origins) ==
    \E k \in 1..Len(origins) : origins[k].src = r.origin.src /\ origins[k].n = r.origin.n

NumAlphabet == {"1", "2", "$", ",", "(", ")", "x", "-"}

ExampleCells ==
    { <<"(", "1", ",", "2", "3", "4", ")">>,
      <<"$", "1", ",", "2", "3", "4">>,
      MissingCell }

Idle ==
    /\ df_old = <<>> /\ files = <<>> /\ df_new_list = <<>> /\ errors = {}
    /\ df = <<>> /\ page = <<>> /\ df_page = <<>> /\ view = <<>> /\ steps = <<>>
    /\ i = 0 /\ prov = <<>>

InitNum ==
    /\ pc = "clean_num"
    /\ raw \in StringsUpTo(NumAlphabet, MaxNumLen) \cup ExampleCells
    /\ num = NaN
    /\ emp_feats = <<>> /\ centroids = <<>> /\ label_map = <<>>
    /\ Idle

CleanNum ==
    /\ pc = "clean_num"
    /\ num' = clean_num(raw)
    /\ pc' = "cleaned"
    /\ UNCHANGED <<df_old, files, df_new_list, errors, df, page, df_page, view,
                   steps, raw, i, prov, emp_feats, centroids, label_map>>

\* C8: every cell written as digits with optional '$', ',' separators and
\* enclosing parentheses is cleaned to its magnitude, negated when it is in
\* parentheses ('(1,234)' gives -1234, '$1,234' gives 1234), and every cell
\* with non-numeric residue becomes NaN, never zero.
Parenthesised(s) == Len(s) >= 2 /\ s[1] = "(" /\ s[Len(s)] = ")"
Unwrapped(s) == IF Parenthesised(s) THEN SubSeq(s, 2, Len(s) - 1) ELSE s
Undollared(s) == IF s # <<>> /\ s[1] = "$" THEN Tail(s) ELSE s
GroupedDigits(s) ==
    /\ s # <<>>
    /\ \A k \in 1..Len(s) : s[k] \in Digits \cup {","}
    /\ s[1] \in Digits /\ s[Len(s)] \in Digits
    /\ \A k \in 1..(Len(s) - 1) : ~(s[k] = "," /\ s[k + 1] = ",")
WellFormedAmount(s) == s # MissingCell /\ GroupedDigits(Undollared(Unwrapped(s)))
AmountValue(s) ==
    LET m == DecimalValue(SelectSeq(s, LAMBDA c : c \in Digits))
    IN IF Parenthesised(s) THEN 0 - m ELSE m
HasResidue(s) ==
    s # MissingCell /\ \E k \in 1..Len(s) : s[k] \notin Digits \cup StripChars \cup {"-"}
CleanNumSignedMagnitude ==
    pc = "cleaned" =>
        /\ WellFormedAmount(raw) => num = Num(AmountValue(raw))
        /\ HasResidue(raw) => num = NaN

NextNum == CleanNum

SpecNum == InitNum /\ [][NextNum]_vars

\* ------------------------------------------- a run on the cached table

\* The rows of the historical sheet behind a cached table: records of one
\* department, costed or not, and one of a label that is no page's
ViewPool ==
    {RawRow(date, 1, <<"1">>, ext, emp, <<"BTC">>) :
        date \in {Dec15, Feb03},
        ext \in {MissingCell, <<"1", "0">>, <<"3", "0">>},
        emp \in {"E1", "E2", "E3"}}
    \cup {RawRow(Feb03, 2, <<"2">>, MissingCell, "E1", <<"LAB">>)}

\* What load_data returned for a historical sheet of these rows and a
\* monthly CSV without rows, kept by st.cache_data for the reruns
CachedLoad(rows) ==
    SelectSeq(Normalised([col |-> RenameHistorical("Department"),
                          rows |-> ReadRows(rows, <<"excel">>, "Department")]),
              Retained)

\* A rerun of the script: load_data answers from the cache
InitView ==
    /\ pc = "loaded"
    /\ \E rows \in StringsUpTo(ViewPool, MaxTable) :
        LET merged == CachedLoad(rows)
        IN /\ df = [k \in 1..Len(merged) |-> Record(merged[k])]
           /\ prov = [k \in 1..Len(merged) |-> merged[k].origin]
    /\ df_old = <<>> /\ files = <<>> /\ df_new_list = <<>> /\ errors = {}
    /\ page = <<>> /\ df_page = <<>> /\ view = <<>> /\ steps = <<>>
    /\ i = 0 /\ raw = <<>> /\ num = NaN
    /\ emp_feats = <<>> /\ centroids = <<>> /\ label_map = <<>>

NextView ==
    \/ StopIfEmpty \/ SelectPage \/ Overview \/ DeptAggregates
    \/ AnomalyDetection \/ ClusterFeatures \/ KMeansFit \/ LabelClusters
    \/ RenderTabs

SpecView == InitView /\ [][NextView]_vars

\* ---------------------------------------------- properties of a run

Overviewing == page = <<"Overview">>

\* The department page has records and its latest month is known
InDeptView ==
    /\ page # <<>> /\ ~Overviewing
    /\ df_page # <<>>
    /\ pc \in {"dept", "anomalies", "features", "fitted", "labelled", "rendered",
               "exception"}

\* C5: when no usable record remains for the view being computed (the whole
\* table is empty, or the selected department's table is), the run stops
\* before any aggregation step is executed on the empty input.
NoDataShortCircuit ==
    (pc # "loaded" /\ df_page = <<>>) => (steps = <<>> /\ pc \in {"stopped", "page"})

\* C6: in a department view with fewer than 2 employees of positive summed
\* extension in the latest month, the outlier model is not used, no anomaly
\* is reported and the run does not end in an error.
AnomalyNoOpBelowTwo ==
    (/\ InDeptView /\ pc # "dept"
     /\ Cardinality(PositiveSpend(GroupBy(df_em, "Employee.1", "Extension", "sum"))) < 2)
    => (~view.iso /\ view.anomalies = {} /\ pc # "exception")

\* C7: in a department view with fewer than 3 employees of positive spend and
\* positive transaction count in the latest month, the 3-cluster fit is not
\* attempted and no exception is raised.
ClusteringNoOpBelowThree ==
    (/\ InDeptView /\ pc \in {"fitted", "labelled", "rendered", "exception"}
     /\ Cardinality(DOMAIN Features(df_em)) < n_clusters)
    => (pc # "exception" /\ \A k \in 1..Len(steps) : steps[k] # "kmeans")

\* The groups of table without a value in column are missing from series, or
\* NaN in it
GroupsReportMissing(series, table, by, column) ==
    \A g \in {Key(by, r) : r \in Rows(table)} :
        AllMissing(Column(SelectSeq(table, LAMBDA r : Key(by, r) = g), column))
            => LET name == IF by = "Dept" /\ g = MissingCell /\ g \notin DOMAIN series
                           THEN <<"Unassigned">> ELSE g
               IN name \notin DOMAIN series \/ series[name].nan

\* C9: in every aggregate that sums extension or quantity over a group, a
\* group all of whose values are missing is reported as missing or absent,
\* never as 0.
AllMissingGroupReportedMissing ==
    /\ (pc = "rendered" /\ Overviewing) =>
        /\ GroupsReportMissing(view.mono, df, "Date", "Extension")
        /\ GroupsReportMissing(view.monthly, InYear(df, view.sel_year), "Date", "Extension")
        /\ GroupsReportMissing(view.top_q, df, "Item", "Quantity")
        /\ GroupsReportMissing(view.top_e, df, "Item", "Extension")
        /\ GroupsReportMissing(view.dp, InPeriod(df, view.last_period), "Dept",
                               "Extension")
        /\ GroupsReportMissing(view.dept_overall,
                               SelectSeq(df, LAMBDA r : r.Dept # MissingCell),
                               "Dept", "Extension")
    /\ (pc = "dept" /\ df_page # <<>>) =>
        /\ GroupsReportMissing(view.dept_trend, df_page, "Date", "Extension")
        /\ GroupsReportMissing(view.top_q, df_page, "Item", "Quantity")
        /\ GroupsReportMissing(view.top_e, df_page, "Item", "Extension")
        /\ GroupsReportMissing(view.top_q_last, df_em, "Item", "Quantity")
        /\ GroupsReportMissing(view.top_e_last, df_em, "Item", "Extension")

\* -------------------------------------------------- the clustering alone

\* The features of three employees, and those of the documented example
FeatureGrid == [Total_Spend : 1..MaxSpend, Txn_Count : 1..MaxTxn]

ExampleFeatures ==
    [e \in {"E1", "E2", "E3"} |->
        IF e = "E1" THEN [Total_Spend |-> 1000, Txn_Count |-> 1]
        ELSE IF e = "E2" THEN [Total_Spend |-> 20, Txn_Count |-> 50]
        ELSE [Total_Spend |-> 500, Txn_Count |-> 25]]

InitLabel ==
    /\ pc = "features"
    /\ emp_feats \in [{"E1", "E2", "E3"} -> FeatureGrid] \cup {ExampleFeatures}
    /\ df_old = <<>> /\ files = <<>> /\ df_new_list = <<>> /\ errors = {}
    /\ df = <<>> /\ prov = <<>> /\ page = <<>> /\ df_page = <<>>
    /\ view = <<>> /\ steps = <<>>
    /\ i = 0 /\ raw = <<>> /\ num = NaN
    /\ centroids = <<>> /\ label_map = <<>>

NextLabel == KMeansFit \/ LabelClusters

SpecLabel == InitLabel /\ [][NextLabel]_vars

\* Centroid c has the highest transaction count and, of those that have it,
\* the lowest spend
HighFreqLowSpend(c) ==
    \A d \in Clusters :
        /\ ~RatLess(centroids[c].Txn_Count, centroids[d].Txn_Count)
        /\ RatEq(centroids[c].Txn_Count, centroids[d].Txn_Count)
               => ~RatLess(centroids[d].Total_Spend, centroids[c].Total_Spend)

\* Centroid c has the lowest transaction count and, of those that have it,
\* the highest spend
LowFreqHighSpend(c) ==
    \A d \in Clusters :
        /\ ~RatLess(centroids[d].Txn_Count, centroids[c].Txn_Count)
        /\ RatEq(centroids[c].Txn_Count, centroids[d].Txn_Count)
               => ~RatLess(centroids[c].Total_Spend, centroids[d].Total_Spend)

Labelled(label) ==
    {c \in Clusters : /\ ClusterName(c) \in DOMAIN label_map
                      /\ label_map[ClusterName(c)] = label}

\* C10: for every three centroids, one cluster of highest transaction count
\* (lowest spend on a tie) is labelled High-Freq, Low-Spend, one of lowest
\* transaction count (highest spend on a tie) is labelled Low-Freq,
\* High-Spend, every other cluster of an employee is Mid-Range, and both
\* extreme labels are assigned; in the example the employee of 50
\* transactions is High-Freq, Low-Spend and the one of 1 is Low-Freq,
\* High-Spend.
ClusterLabelsAssigned ==
    pc = "labelled" =>
        /\ \A e \in DOMAIN emp_feats : emp_feats[e].Cluster \in DOMAIN label_map
        /\ Cardinality(Labelled("High-Freq, Low-Spend")) = 1
        /\ Cardinality(Labelled("Low-Freq, High-Spend")) = 1
        /\ \A c \in Labelled("High-Freq, Low-Spend") : HighFreqLowSpend(c)
        /\ \A c \in Labelled("Low-Freq, High-Spend") : LowFreqHighSpend(c)
        /\ \A c \in Clusters :
               ClusterName(c) \in DOMAIN label_map =>
                   label_map[ClusterName(c)] \in
                       {"High-Freq, Low-Spend", "Low-Freq, High-Spend", "Mid-Range"}
        /\ (\A e \in DOMAIN emp_feats :
                /\ emp_feats[e].Txn_Count = ExampleFeatures[e].Txn_Count
                /\ emp_feats[e].Total_Spend = ExampleFeatures[e].Total_Spend) =>
               /\ emp_feats["E2"].Cluster_Label = "High-Freq, Low-Spend"
               /\ emp_feats["E1"].Cluster_Label = "Low-Freq, High-Spend"
               /\ emp_feats["E3"].Cluster_Label = "Mid-Range"

====
